---------------------------- MODULE Spec2Model ----------------------------
(***************************************************************************)
(* A model of src/script.js (class NLPTermsExtractor).                     *)
(*                                                                         *)
(* JavaScript strings are modelled as sequences of one-character strings,  *)
(* so the regular expressions of extractTerms and cleanFilename are        *)
(* computed character by character.                                        *)
(*                                                                         *)
(* Three specifications share the variables:                               *)
(*   Spec        the page: processFiles batches, displayResults, the       *)
(*               loading overlay and downloadAllTerms;                     *)
(*   SpecExtract extractTerms applied to bounded texts;                    *)
(*   SpecClean   cleanFilename and its five rewrite rules applied to       *)
(*               bounded file names.                                       *)
(***************************************************************************)
EXTENDS Integers, Sequences, FiniteSets, TLC

VARIABLES
    \* ---- the page (Spec) ----
    batches,            \* the processFiles calls started so far, in start order
    loadingHidden,      \* loadingOverlay has class "hidden"
    emptyStateHidden,   \* emptyState has class "hidden"
    resultsHidden,      \* resultsSection has class "hidden"
    downloadBtnHidden,  \* downloadAllBtn has class "hidden"
    resultsGrid,        \* the cards of resultsGrid, in document order
    download,           \* what the last downloadAllTerms call did
    \* ---- extractTerms alone (SpecExtract) ----
    text,               \* the argument of extractTerms
    extraction,         \* its return value, or NoCall
    \* ---- cleanFilename alone (SpecClean) ----
    rawName,            \* the argument
    cleanName,          \* the current value of the local cleanName
    applied,            \* the replacements applied to it so far
    once                \* the value after the first replacement

pageVars == <<batches, loadingHidden, emptyStateHidden, resultsHidden,
              downloadBtnHidden, resultsGrid, download>>
extractVars == <<text, extraction>>
cleanVars == <<rawName, cleanName, applied, once>>
vars == <<batches, loadingHidden, emptyStateHidden, resultsHidden,
          downloadBtnHidden, resultsGrid, download, text, extraction,
          rawName, cleanName, applied, once>>

\* extraction before extractTerms has returned.
NoCall == [terms |-> <<>>, count |-> -1]

(***************************************************************************)
(* Characters.                                                             *)
(***************************************************************************)

\* The ASCII characters the model uses, in ascending UTF-16 code unit order.
AsciiOrder ==
    <<"\t", "\n", "\r", " ", "#", "&", "*", "-", ".",
      "0", "1", "2", "3", "4", "5", "6", "7", "8", "9", ":", ";", "<", ">",
      "A", "B", "C", "D", "E", "F", "G", "H", "I", "J", "K", "L", "M",
      "N", "O", "P", "Q", "R", "S", "T", "U", "V", "W", "X", "Y", "Z", "_",
      "a", "b", "c", "d", "e", "f", "g", "h", "i", "j", "k", "l", "m",
      "n", "o", "p", "q", "r", "s", "t", "u", "v", "w", "x", "y", "z">>

Chars == {AsciiOrder[i] : i \in 1..Len(AsciiOrder)}

\* The rank of a character in code unit order (order-isomorphic to its code).
RankOf == [c \in Chars |-> CHOOSE i \in 1..Len(AsciiOrder) : AsciiOrder[i] = c]

CodeUnit(c) == RankOf[c]

UpperLetters ==
    <<"A", "B", "C", "D", "E", "F", "G", "H", "I", "J", "K", "L", "M",
      "N", "O", "P", "Q", "R", "S", "T", "U", "V", "W", "X", "Y", "Z">>

LowerLetters ==
    <<"a", "b", "c", "d", "e", "f", "g", "h", "i", "j", "k", "l", "m",
      "n", "o", "p", "q", "r", "s", "t", "u", "v", "w", "x", "y", "z">>

LowerOf ==
    [c \in Chars |->
        IF \E i \in 1..Len(UpperLetters) : UpperLetters[i] = c
        THEN LowerLetters[CHOOSE i \in 1..Len(UpperLetters) :
                             UpperLetters[i] = c]
        ELSE c]

UpperOf ==
    [c \in Chars |->
        IF \E i \in 1..Len(LowerLetters) : LowerLetters[i] = c
        THEN UpperLetters[CHOOSE i \in 1..Len(LowerLetters) :
                             LowerLetters[i] = c]
        ELSE c]

\* String.prototype.toLowerCase on one character.
ToLowerChar(c) == LowerOf[c]

\* The canonicalisation of the regular expression flag i.
ToUpperChar(c) == UpperOf[c]

ToLowerCase(s) == [i \in 1..Len(s) |-> ToLowerChar(s[i])]

\* \d
IsDigit(c) == c \in {"0", "1", "2", "3", "4", "5", "6", "7", "8", "9"}

\* \s, and the characters String.prototype.trim removes
IsSpace(c) == c \in {" ", "\t", "\n", "\r"}

\* what . does not match without the flag s
IsLineTerminator(c) == c \in {"\n", "\r"}

\* The slice s[from..Len(s)].
From(s, from) == SubSeq(s, from, Len(s))

\* Whether the literal lit occurs in s at index i.
LiteralAt(s, i, lit) ==
    /\ i >= 1
    /\ i + Len(lit) - 1 <= Len(s)
    /\ SubSeq(s, i, i + Len(lit) - 1) = lit

\* The index after the longest run of digits of s that starts at i (\d*).
RECURSIVE SkipDigits(_, _)
SkipDigits(s, i) ==
    IF i <= Len(s) /\ IsDigit(s[i]) THEN SkipDigits(s, i + 1) ELSE i

\* The index after the longest run of white space of s that starts at i (\s*).
RECURSIVE SkipSpaces(_, _)
SkipSpaces(s, i) ==
    IF i <= Len(s) /\ IsSpace(s[i]) THEN SkipSpaces(s, i + 1) ELSE i

\* String.prototype.trim
RECURSIVE TrimEnd(_)
TrimEnd(s) ==
    IF s # <<>> /\ IsSpace(s[Len(s)]) THEN TrimEnd(SubSeq(s, 1, Len(s) - 1))
    ELSE s

Trim(s) == TrimEnd(From(s, SkipSpaces(s, 1)))

(***************************************************************************)
(* cleanFilename (script.js 342-359): five replacements, in order.         *)
(***************************************************************************)

TxtExtension == <<".", "t", "x", "t">>

BoilerplatePrefix ==
    <<"s", "u", "r", "f", "e", "r", "-", "g", "u", "i", "d", "e", "l", "i",
      "n", "e", "s", "-">>

\* filename.replace(/\.txt$/i, "")
RemoveExtension(s) ==
    IF Len(s) >= 4 /\ ToLowerCase(From(s, Len(s) - 3)) = TxtExtension
    THEN SubSeq(s, 1, Len(s) - 4)
    ELSE s

\* cleanName.replace(/^(\d+\.)\s*surfer-guidelines-/, "$1 ")
CollapseBoilerplate(s) ==
    LET d == SkipDigits(s, 1)
        w == SkipSpaces(s, d + 1)
    IN  IF d > 1 /\ LiteralAt(s, d, <<".">>)
           /\ LiteralAt(s, w, BoilerplatePrefix)
        THEN SubSeq(s, 1, d) \o <<" ">> \o From(s, w + Len(BoilerplatePrefix))
        ELSE s

\* cleanName.replace(/^(\d+)_/, "$1. ")
RewriteUnderscore(s) ==
    LET d == SkipDigits(s, 1)
    IN  IF d > 1 /\ LiteralAt(s, d, <<"_">>)
        THEN SubSeq(s, 1, d - 1) \o <<".", " ">> \o From(s, d + 1)
        ELSE s

\* The dash rule with the replacement "$1 ": the group already ends in a dot.
CollapseDashOneDot(s) ==
    LET d == SkipDigits(s, 1)
        w == SkipSpaces(s, d + 1)
    IN  IF d > 1 /\ LiteralAt(s, d, <<".">>) /\ LiteralAt(s, w, <<"-">>)
        THEN SubSeq(s, 1, d) \o <<" ">> \o From(s, SkipSpaces(s, w + 1))
        ELSE s

\* cleanName.replace(/^(\d+\.)\s*-\s*/, "$1. ")
\* $1 is the digits and the dot; the replacement adds a second dot.
CollapseDash(s) ==
    LET d == SkipDigits(s, 1)
        w == SkipSpaces(s, d + 1)
    IN  IF d > 1 /\ LiteralAt(s, d, <<".">>) /\ LiteralAt(s, w, <<"-">>)
        THEN SubSeq(s, 1, d) \o <<".", " ">> \o From(s, SkipSpaces(s, w + 1))
        ELSE s

\* Whether s[i..Len(s)] is -\d{1,2}-\d{1,2}-\d{4} up to the end of s.
DateSuffixAt(s, i) ==
    /\ LiteralAt(s, i, <<"-">>)
    /\ \E a \in 1..2 : \E b \in 1..2 :
          /\ i + a + b + 6 = Len(s)
          /\ \A k \in (i + 1)..(i + a) : IsDigit(s[k])
          /\ s[i + a + 1] = "-"
          /\ \A k \in (i + a + 2)..(i + a + b + 1) : IsDigit(s[k])
          /\ s[i + a + b + 2] = "-"
          /\ \A k \in (i + a + b + 3)..(i + a + b + 6) : IsDigit(s[k])

\* cleanName.replace(/-\d{1,2}-\d{1,2}-\d{4}$/, ""): the leftmost match.
StripDate(s) ==
    LET starts == {i \in 1..Len(s) : DateSuffixAt(s, i)}
    IN  IF starts = {} THEN s
        ELSE SubSeq(s, 1, (CHOOSE i \in starts : \A j \in starts : i <= j) - 1)

\* The replacements of cleanFilename by position.
Rules == 1..5

ApplyRule(r, s) ==
    CASE r = 1 -> RemoveExtension(s)
      [] r = 2 -> CollapseBoilerplate(s)
      [] r = 3 -> RewriteUnderscore(s)
      [] r = 4 -> CollapseDash(s)
      [] r = 5 -> StripDate(s)

cleanFilename(filename) ==
    StripDate(CollapseDash(RewriteUnderscore(CollapseBoilerplate(
        RemoveExtension(filename)))))


(***************************************************************************)
(* extractTerms (script.js 307-339; the definition at 115-148 is           *)
(* overridden by this later one of the same class body).                   *)
(***************************************************************************)

Heading ==
    <<"#", "#", " ", "I", "M", "P", "O", "R", "T", "A", "N", "T", " ", "T",
      "E", "R", "M", "S", " ", "T", "O", " ", "U", "S", "E">>

SectionNotFound ==
    <<"I", "M", "P", "O", "R", "T", "A", "N", "T", " ", "T", "E", "R", "M",
      "S", " ", "s", "e", "c", "t", "i", "o", "n", " ", "n", "o", "t", " ",
      "f", "o", "u", "n", "d", ".">>

NoTermsFound ==
    <<"N", "o", " ", "t", "e", "r", "m", "s", " ", "f", "o", "u", "n", "d",
      " ", "i", "n", " ", "t", "h", "e", " ", "I", "M", "P", "O", "R", "T",
      "A", "N", "T", " ", "T", "E", "R", "M", "S", " ", "s", "e", "c", "t",
      "i", "o", "n", ".">>

\* Whether "## IMPORTANT TERMS TO USE" matches t at index i under the flag i.
HeadingAt(t, i) ==
    /\ i >= 1
    /\ i + Len(Heading) - 1 <= Len(t)
    /\ \A k \in 1..Len(Heading) :
          ToUpperChar(t[i + k - 1]) = ToUpperChar(Heading[k])

\* text.match(/## IMPORTANT TERMS TO USE(.+?)(##|$)/is): the starts at which
\* the whole pattern matches. (.+?) takes at least one character, of any kind
\* (flag s), so a heading that ends the text matches nowhere.
SectionStarts(t) ==
    {i \in 1..Len(t) : HeadingAt(t, i) /\ i + Len(Heading) <= Len(t)}

\* Group 1 of the leftmost match: the fewest characters, at least one, that
\* are followed by ## or by the end of the text.
SectionBody(t) ==
    LET i == CHOOSE x \in SectionStarts(t) : \A y \in SectionStarts(t) : x <= y
        p == i + Len(Heading)
        ends == {e \in (p + 1)..(Len(t) + 1) :
                    e = Len(t) + 1 \/ LiteralAt(t, e, <<"#", "#">>)}
        e == CHOOSE x \in ends : \A y \in ends : x <= y
    IN  SubSeq(t, p, e - 1)

\* (.+?): for a group that starts at g, the index of the colon that ends it:
\* the first colon after g that only characters other than line terminators
\* separate from g (g itself included); 0 when there is none.
GroupColon(s, g) ==
    LET colons == {e \in (g + 1)..Len(s) :
                      /\ s[e] = ":"
                      /\ \A q \in g..(e - 1) : ~IsLineTerminator(s[q])}
    IN  IF g > Len(s) \/ colons = {} THEN 0
        ELSE CHOOSE e \in colons : \A f \in colons : e <= f

NoItem == [from |-> 0, group |-> 0, to |-> 0]

\* /\*\s*(.+?):/ tried at index i: \s* is greedy and gives characters back
\* until the rest matches.
ItemAt(s, i) ==
    IF s[i] # "*" THEN NoItem
    ELSE LET w == SkipSpaces(s, i + 1)
             groups == {g \in (i + 1)..w : GroupColon(s, g) # 0}
         IN  IF groups = {} THEN NoItem
             ELSE LET g == CHOOSE x \in groups : \A y \in groups : x >= y
                  IN  [from |-> i, group |-> g, to |-> GroupColon(s, g)]

\* content.match(/\*\s*(.+?):/g): the matches from index i on, left to right,
\* each search resuming after the previous match.
RECURSIVE ItemsFrom(_, _)
ItemsFrom(s, i) ==
    IF i > Len(s) THEN <<>>
    ELSE IF ItemAt(s, i) = NoItem THEN ItemsFrom(s, i + 1)
    ELSE <<ItemAt(s, i)>> \o ItemsFrom(s, ItemAt(s, i).to + 1)

\* term.replace(/^\*\s*/, "")
StripMarker(m) ==
    IF m # <<>> /\ m[1] = "*" THEN From(m, SkipSpaces(m, 2)) ELSE m

\* .replace(/:$/, "")
StripColon(m) ==
    IF m # <<>> /\ m[Len(m)] = ":" THEN SubSeq(m, 1, Len(m) - 1) ELSE m

CleanTerm(m) == Trim(StripColon(StripMarker(m)))

\* Whether some element of seq is x.
Has(seq, x) == \E i \in 1..Len(seq) : seq[i] = x

\* The terms as matched, without the removal of duplicates.
KeepDuplicates(seq) == seq

\* [...new Set(cleanedTerms)]: the first occurrence of each value, in order.
RECURSIVE UniqueTerms(_)
UniqueTerms(seq) ==
    IF seq = <<>> THEN <<>>
    ELSE LET init == UniqueTerms(SubSeq(seq, 1, Len(seq) - 1))
             last == seq[Len(seq)]
         IN  IF Has(init, last) THEN init ELSE Append(init, last)

\* The comparison of Array.prototype.sort without a comparator: a < b as
\* strings, by UTF-16 code units, a proper prefix first.
RECURSIVE StringLess(_, _)
StringLess(a, b) ==
    IF b = <<>> THEN FALSE
    ELSE IF a = <<>> THEN TRUE
    ELSE IF a[1] # b[1] THEN CodeUnit(a[1]) < CodeUnit(b[1])
    ELSE StringLess(Tail(a), Tail(b))

\* x put into the sorted sequence seq, after the elements not greater than it.
RECURSIVE Insert(_, _)
Insert(seq, x) ==
    IF seq = <<>> THEN <<x>>
    ELSE IF StringLess(x, seq[1]) THEN <<x>> \o seq
    ELSE <<seq[1]>> \o Insert(Tail(seq), x)

\* cleanedTerms.sort(): stable, ascending.
RECURSIVE SortTerms(_)
SortTerms(seq) ==
    IF seq = <<>> THEN <<>>
    ELSE Insert(SortTerms(SubSeq(seq, 1, Len(seq) - 1)), seq[Len(seq)])

\* cleanedTerms.join("\n")
RECURSIVE JoinLines(_)
JoinLines(seq) ==
    IF seq = <<>> THEN <<>>
    ELSE IF Len(seq) = 1 THEN seq[1]
    ELSE seq[1] \o <<"\n">> \o JoinLines(Tail(seq))

extractTerms(t) ==
    IF SectionStarts(t) = {}
    THEN [terms |-> SectionNotFound, count |-> 0]
    ELSE LET content == SectionBody(t)
             items == ItemsFrom(content, 1)
             terms == [k \in 1..Len(items) |->
                          SubSeq(content, items[k].from, items[k].to)]
         IN  IF items = <<>>
             THEN [terms |-> NoTermsFound, count |-> 0]
             ELSE LET cleanedTerms ==
                          SortTerms(UniqueTerms(
                              [k \in 1..Len(terms) |-> CleanTerm(terms[k])]))
                  IN  [terms |-> JoinLines(cleanedTerms),
                       count |-> Len(cleanedTerms)]


(***************************************************************************)
(* Bounded inputs: strings put together from a few fragments.              *)
(***************************************************************************)

MaxNameTokens == 4
MaxTextTokens == 4

RECURSIVE Concat(_)
Concat(parts) ==
    IF parts = <<>> THEN <<>> ELSE parts[1] \o Concat(Tail(parts))

\* Every concatenation of at most n elements of tokens.
Strings(tokens, n) ==
    {Concat(parts) : parts \in UNION {[1..k -> tokens] : k \in 0..n}}

NameTokens ==
    { <<"1">>, <<".">>, <<"_">>, <<"-">>, <<" ">>, TxtExtension,
      BoilerplatePrefix,
      <<"-", "1", "-", "0", "8", "-", "2", "0", "2", "5">> }

UnderscoreExample ==
    <<"1", "_", "s", "u", "r", "f", "e", "r", "-", "g", "u", "i", "d", "e",
      "l", "i", "n", "e", "s", "-", "r", "e", "p", "o", "r", "t", ".", "t",
      "x", "t">>

DashExample ==
    <<"2", ".", "-", "G", "u", "i", "d", "e", "l", "i", "n", "e", "s", "-",
      "1", "2", "-", "0", "8", "-", "2", "0", "2", "5", ".", "t", "x", "t">>

ExampleNames ==
    { UnderscoreExample, DashExample,
      <<"n", "o", "t", "e", "s", ".", "T", "X", "T">>,
      <<"1", "2", ".", " ", "-", " ", "a", "-", "1", "-", "8", "-", "2", "0",
        "2", "5", ".", "T", "x", "t">> }

Names == Strings(NameTokens, MaxNameTokens) \cup ExampleNames

MixedCaseHeading ==
    <<"#", "#", " ", "I", "m", "p", "o", "r", "t", "a", "n", "t", " ", "t",
      "e", "r", "m", "s", " ", "T", "o", " ", "U", "s", "e">>

TextTokens ==
    { Heading, MixedCaseHeading, <<"#", "#">>, <<"*">>, <<" ">>, <<":">>,
      <<"\n">>, <<"*", "a", ":">>, <<"*", " ", "B", ":">> }

Texts == Strings(TextTokens, MaxTextTokens)

(***************************************************************************)
(* The page after the constructor: nothing processed, download hidden.     *)
(* hideDownloadButton hides the button; the overlay and the results        *)
(* section start hidden and the empty state shown, as every handler that   *)
(* toggles them takes for granted.                                         *)
(***************************************************************************)

NoDownload ==
    [status |-> "none", cards |-> <<>>, entries |-> <<>>, zipFileName |-> <<>>]

PageInit ==
    /\ batches = <<>>
    /\ loadingHidden = TRUE
    /\ emptyStateHidden = FALSE
    /\ resultsHidden = TRUE
    /\ downloadBtnHidden = TRUE
    /\ resultsGrid = <<>>
    /\ download = NoDownload

ExtractIdle ==
    /\ text = <<>>
    /\ extraction = NoCall

CleanIdle ==
    /\ rawName = <<>>
    /\ cleanName = <<>>
    /\ applied = <<>>
    /\ once = <<>>

(***************************************************************************)
(* SpecExtract: extractTerms called once on a bounded text.                *)
(***************************************************************************)

InitExtract ==
    /\ PageInit
    /\ CleanIdle
    /\ text \in Texts
    /\ extraction = NoCall

CallExtractTerms ==
    /\ extraction = NoCall
    /\ extraction' = extractTerms(text)
    /\ UNCHANGED <<text, pageVars, cleanVars>>

NextExtract == CallExtractTerms

SpecExtract == InitExtract /\ [][NextExtract]_vars

(***************************************************************************)
(* SpecClean: cleanFilename called on a bounded name, or one of its        *)
(* replacements applied once and then again to its own result.             *)
(***************************************************************************)

InitClean ==
    /\ PageInit
    /\ ExtractIdle
    /\ rawName \in Names
    /\ cleanName = rawName
    /\ applied = <<>>
    /\ once = <<>>

CallCleanFilename ==
    /\ applied = <<>>
    /\ cleanName' = cleanFilename(rawName)
    /\ applied' = <<1, 2, 3, 4, 5>>
    /\ UNCHANGED <<rawName, once, pageVars, extractVars>>

ApplyOneRule(r) ==
    /\ \/ applied = <<>>
       \/ applied = <<r>>
    /\ cleanName' = ApplyRule(r, cleanName)
    /\ applied' = Append(applied, r)
    /\ once' = IF applied = <<>> THEN cleanName' ELSE once
    /\ UNCHANGED <<rawName, pageVars, extractVars>>

NextClean ==
    \/ CallCleanFilename
    \/ \E r \in Rules : ApplyOneRule(r)

SpecClean == InitClean /\ [][NextClean]_vars


(***************************************************************************)
(* The cards (script.js 163-241).                                          *)
(***************************************************************************)

RECURSIVE Spaces(_)
Spaces(n) == IF n = 0 THEN <<>> ELSE <<" ">> \o Spaces(n - 1)

\* escapeHtml: textContent set, innerHTML read back.
RECURSIVE escapeHtml(_)
escapeHtml(s) ==
    IF s = <<>> THEN <<>>
    ELSE (CASE s[1] = "&" -> <<"&", "a", "m", "p", ";">>
            [] s[1] = "<" -> <<"&", "l", "t", ";">>
            [] s[1] = ">" -> <<"&", "g", "t", ";">>
            [] OTHER -> <<s[1]>>) \o escapeHtml(Tail(s))

\* The text an HTML parser makes of character data: the character references
\* escapeHtml writes are decoded. (No string of the model holds a tag.)
RECURSIVE HtmlText(_)
HtmlText(s) ==
    IF s = <<>> THEN <<>>
    ELSE IF LiteralAt(s, 1, <<"&", "a", "m", "p", ";">>)
    THEN <<"&">> \o HtmlText(From(s, 6))
    ELSE IF LiteralAt(s, 1, <<"&", "l", "t", ";">>)
    THEN <<"<">> \o HtmlText(From(s, 5))
    ELSE IF LiteralAt(s, 1, <<"&", "g", "t", ";">>)
    THEN <<">">> \o HtmlText(From(s, 5))
    ELSE <<s[1]>> \o HtmlText(Tail(s))

\* textContent of the h3 of a success card: the template's line break and
\* indentation surround the escaped name (script.js 185-187).
SuccessTitle(displayName) ==
    HtmlText(<<"\n">> \o Spaces(16) \o escapeHtml(displayName)
             \o <<"\n">> \o Spaces(12))

\* textContent of the h3 of an error card (script.js 223-225).
ErrorTitle(displayName) ==
    HtmlText(<<"\n">> \o Spaces(24) \o escapeHtml(displayName)
             \o <<"\n">> \o Spaces(20))

\* textContent of the pre: result.terms is written unescaped (script.js 192);
\* the parser drops a line feed that directly follows the <pre> tag.
PreText(terms) ==
    HtmlText(IF terms # <<>> /\ terms[1] = "\n" THEN Tail(terms) ELSE terms)

NoElement == <<"no element">>

createSuccessCard(result) ==
    [kind |-> "success",
     h3 |-> SuccessTitle(cleanFilename(result.filename)),
     pre |-> PreText(result.terms),
     termCount |-> result.termCount]

createErrorCard(result) ==
    [kind |-> "error",
     h3 |-> ErrorTitle(cleanFilename(result.filename)),
     pre |-> NoElement,
     termCount |-> 0]

createResultCard(result) ==
    IF result.error THEN createErrorCard(result) ELSE createSuccessCard(result)

\* The children displayResults gives resultsGrid.
Cards(results) == [i \in 1..Len(results) |-> createResultCard(results[i])]

(***************************************************************************)
(* processFiles (script.js 53-113).                                        *)
(***************************************************************************)

MaxBatches == 2

ReadErrorMessage ==
    <<"F", "a", "i", "l", "e", "d", " ", "t", "o", " ", "r", "e", "a", "d",
      " ", "f", "i", "l", "e">>

\* The files the user can pick: one with a section holding a duplicate, one
\* that cannot be read, one that is not text/plain and has no section.
TermsFile ==
    [name |-> <<"1", "_", "a", ".", "t", "x", "t">>,
     type |-> "text/plain",
     readable |-> TRUE,
     content |-> Heading \o <<"\n", "*", " ", "b", ":", " ", "x", "\n",
                              "*", " ", "a", ":", "\n", "*", "b", ":">>]

UnreadableFile ==
    [name |-> <<"2", ".", "-", "b", ".", "t", "x", "t">>,
     type |-> "text/plain",
     readable |-> FALSE,
     content |-> <<>>]

PlainFile ==
    [name |-> <<"c", "&", "d", ".", "m", "d">>,
     type |-> "text/markdown",
     readable |-> TRUE,
     content |-> <<"#", " ", "c", "\n", "*", " ", "a", ":">>]

\* The File objects, by the order in which a file list holds them.
FilePool == <<TermsFile, UnreadableFile, PlainFile>>

\* The subsequence of seq at the indices in keep.
RECURSIVE Pick(_, _)
Pick(seq, keep) ==
    IF seq = <<>> THEN <<>>
    ELSE IF Len(seq) \in keep
    THEN Append(Pick(SubSeq(seq, 1, Len(seq) - 1), keep), seq[Len(seq)])
    ELSE Pick(SubSeq(seq, 1, Len(seq) - 1), keep)

\* The file lists of a drop or a selection: any files of the pool, at least
\* one, each a reference to its File object.
FileLists ==
    {Pick([i \in 1..Len(FilePool) |-> i], keep) :
        keep \in (SUBSET (1..Len(FilePool))) \ {{}}}

\* Array.prototype.filter
RECURSIVE FilterPlain(_)
FilterPlain(files) ==
    IF files = <<>> THEN <<>>
    ELSE IF FilePool[files[1]].type = "text/plain"
    THEN <<files[1]>> \o FilterPlain(Tail(files))
    ELSE FilterPlain(Tail(files))

\* results.push of the try block (script.js 80-87)
PushSuccess(results, file) ==
    Append(results,
           [filename |-> file.name,
            error |-> FALSE,
            errorMessage |-> <<>>,
            terms |-> extractTerms(file.content).terms,
            termCount |-> extractTerms(file.content).count,
            content |-> file.content])

\* A catch block that logs the error and records nothing.
SkipFailure(results, file) == results

\* results.push of the catch block (script.js 88-94)
PushFailure(results, file) ==
    Append(results,
           [filename |-> file.name,
            error |-> TRUE,
            errorMessage |-> ReadErrorMessage,
            terms |-> <<>>,
            termCount |-> 0,
            content |-> <<>>])

\* processFiles up to its first await: the overlay is shown, the empty state
\* hidden, and the first file is being read.
processFiles(files) ==
    /\ Len(batches) < MaxBatches
    /\ batches' = Append(batches,
                         [files |-> files, next |-> 1, results |-> <<>>,
                          done |-> FALSE])
    /\ loadingHidden' = FALSE
    /\ emptyStateHidden' = TRUE
    /\ UNCHANGED <<resultsHidden, downloadBtnHidden, resultsGrid, download,
                   extractVars, cleanVars>>

\* The class "dragover" that handleDrop also removes is not part of the
\* state.
HandleDrop ==
    \E files \in FileLists :
        /\ FilterPlain(files) # <<>>
        /\ processFiles(FilterPlain(files))

HandleFileSelect ==
    \E files \in FileLists : processFiles(files)

\* The continuation of processFiles after the read of batch b's current file
\* settled and results became rs: the next read starts, or the loop ends,
\* displayResults runs and the finally block hides the overlay.
Resume(b, rs) ==
    LET batch == batches[b]
        last == batch.next = Len(batch.files)
    IN  /\ batches' = [batches EXCEPT ![b] =
                          [batch EXCEPT !.results = rs,
                                        !.next = batch.next + 1,
                                        !.done = last]]
        /\ IF last
           THEN /\ resultsGrid' = Cards(rs)
                /\ resultsHidden' = FALSE
                /\ emptyStateHidden' = TRUE
                /\ downloadBtnHidden' = FALSE
                /\ loadingHidden' = TRUE
           ELSE UNCHANGED <<resultsGrid, resultsHidden, emptyStateHidden,
                            downloadBtnHidden, loadingHidden>>
        /\ UNCHANGED <<download, extractVars, cleanVars>>

\* reader.onload of the file batch b awaits
ReaderOnLoad(b) ==
    /\ ~batches[b].done
    /\ FilePool[batches[b].files[batches[b].next]].readable
    /\ Resume(b, PushSuccess(batches[b].results,
                             FilePool[batches[b].files[batches[b].next]]))

\* reader.onerror of the file batch b awaits
ReaderOnError(b) ==
    /\ ~batches[b].done
    /\ ~FilePool[batches[b].files[batches[b].next]].readable
    /\ Resume(b, PushFailure(batches[b].results,
                             FilePool[batches[b].files[batches[b].next]]))


(***************************************************************************)
(* downloadAllTerms (script.js 370-423).                                   *)
(***************************************************************************)

ZipExtension == <<".", "z", "i", "p">>

DefaultZipName ==
    <<"e", "x", "t", "r", "a", "c", "t", "e", "d", "_", "t", "e", "r", "m",
      "s", ".", "z", "i", "p">>

\* What the user may have typed into zipNameInput.
ZipNameInputs ==
    { <<>>, <<" ", "m", "y">>, <<"x", ".", "Z", "I", "P">> }

\* .replace(/_/g, " ")
UnderscoresToSpaces(s) == [i \in 1..Len(s) |-> IF s[i] = "_" THEN " " ELSE s[i]]

\* .replace(/\s+/g, " ")
RECURSIVE CollapseSpaces(_)
CollapseSpaces(s) ==
    IF s = <<>> THEN <<>>
    ELSE IF IsSpace(s[1])
    THEN <<" ">> \o CollapseSpaces(From(s, SkipSpaces(s, 1)))
    ELSE <<s[1]>> \o CollapseSpaces(Tail(s))

\* The name of a card's file in the ZIP (script.js 393-396).
EntryName(title) ==
    Trim(CollapseSpaces(UnderscoresToSpaces(title))) \o TxtExtension

\* The content of a card's file in the ZIP: `${title}\n${terms}` (390).
FileContent(card) == card.h3 \o <<"\n">> \o card.pre

\* zip.file(name, body): a file of the same name is replaced.
ZipFile(zip, name, body) ==
    LET others == {i \in 1..Len(zip) : zip[i].name # name}
        kept(n) == CHOOSE i \in others :
                       Cardinality({j \in others : j <= i}) = n
    IN  [n \in 1..Cardinality(others) |-> zip[kept(n)]]
        \o <<[name |-> name, body |-> body]>>

\* cards.forEach(...) over cards that all hold an h3 and a pre.
RECURSIVE ZipOf(_)
ZipOf(cards) ==
    IF cards = <<>> THEN <<>>
    ELSE LET card == cards[Len(cards)]
         IN  ZipFile(ZipOf(SubSeq(cards, 1, Len(cards) - 1)),
                     EntryName(card.h3), FileContent(card))

\* The name of the ZIP (script.js 401-408).
ZipFileName(value) ==
    IF Trim(value) = <<>> THEN DefaultZipName
    ELSE IF Len(Trim(value)) >= 4
            /\ ToLowerCase(From(Trim(value), Len(Trim(value)) - 3))
               = ZipExtension
    THEN Trim(value)
    ELSE Trim(value) \o ZipExtension

\* A click on downloadAllBtn. card.querySelector("pre") is null for an error
\* card, so reading its textContent throws inside forEach; the catch block
\* logs the error and no ZIP is generated.
DownloadAllTerms ==
    \E jsZipLoaded \in BOOLEAN : \E value \in ZipNameInputs :
        /\ download' =
              IF resultsGrid = <<>>
              THEN [status |-> "no cards", cards |-> resultsGrid,
                    entries |-> <<>>, zipFileName |-> <<>>]
              ELSE IF ~jsZipLoaded
              THEN [status |-> "no JSZip", cards |-> resultsGrid,
                    entries |-> <<>>, zipFileName |-> <<>>]
              ELSE IF \E i \in 1..Len(resultsGrid) :
                         resultsGrid[i].pre = NoElement
              THEN [status |-> "error", cards |-> resultsGrid,
                    entries |-> <<>>, zipFileName |-> <<>>]
              ELSE [status |-> "saved", cards |-> resultsGrid,
                    entries |-> ZipOf(resultsGrid),
                    zipFileName |-> ZipFileName(value)]
        /\ UNCHANGED <<batches, loadingHidden, emptyStateHidden,
                       resultsHidden, downloadBtnHidden, resultsGrid,
                       extractVars, cleanVars>>

(***************************************************************************)
(* Spec: the page.                                                         *)
(***************************************************************************)

Init ==
    /\ PageInit
    /\ ExtractIdle
    /\ CleanIdle

Next ==
    \/ HandleDrop
    \/ HandleFileSelect
    \/ \E b \in 1..Len(batches) : ReaderOnLoad(b)
    \/ \E b \in 1..Len(batches) : ReaderOnError(b)
    \/ DownloadAllTerms

Spec == Init /\ [][Next]_vars


(***************************************************************************)
(* Properties.                                                             *)
(***************************************************************************)

\* s cut at its line feeds (String.prototype.split("\n")).
RECURSIVE SplitLines(_)
SplitLines(s) ==
    LET feeds == {i \in 1..Len(s) : s[i] = "\n"}
    IN  IF feeds = {} THEN <<s>>
        ELSE LET i == CHOOSE x \in feeds : \A y \in feeds : x <= y
             IN  <<SubSeq(s, 1, i - 1)>> \o SplitLines(From(s, i + 1))

\* a sorts strictly before b by code units.
CodeUnitLess(a, b) ==
    \E k \in 1..(Len(b)) :
        /\ k <= Len(a) + 1
        /\ \A j \in 1..(k - 1) : a[j] = b[j]
        /\ \/ k = Len(a) + 1
           \/ CodeUnit(a[k]) < CodeUnit(b[k])

\* The trimmed capture group of every item-line of the section of t.
ItemCaptures(t) ==
    LET content == SectionBody(t)
        items == ItemsFrom(content, 1)
    IN  [k \in 1..Len(items) |->
            Trim(SubSeq(content, items[k].group, items[k].to - 1))]

Range(seq) == {seq[k] : k \in 1..Len(seq)}

IsPlaceholder(r) == r.terms \in {SectionNotFound, NoTermsFound}

Successes(cards) == {i \in 1..Len(cards) : cards[i].kind = "success"}

FirstHeading(t) ==
    CHOOSE i \in 1..Len(t) :
        HeadingAt(t, i) /\ \A j \in 1..(i - 1) : ~HeadingAt(t, j)

\* The text between the first heading of t and the next ## or the end of t.
SectionAfterHeading(t) ==
    LET p == FirstHeading(t) + Len(Heading)
        ends == {e \in p..(Len(t) + 1) :
                    e = Len(t) + 1 \/ LiteralAt(t, e, <<"#", "#">>)}
    IN  SubSeq(t, p, (CHOOSE x \in ends : \A y \in ends : x <= y) - 1)

\* C1: every batch holds exactly one outcome per document read so far, in
\* input order; the outcome of a document whose read failed is a failure
\* with the document's filename and an error message; a batch goes on to
\* the next document after a failure and is done only when every document
\* has its outcome.
C1_OneOutcomePerDocument ==
    \A b \in 1..Len(batches) :
        LET batch == batches[b]
        IN  /\ Len(batch.results) = batch.next - 1
            /\ batch.next <= Len(batch.files) + 1
            /\ batch.done <=> Len(batch.results) = Len(batch.files)
            /\ \A i \in 1..Len(batch.results) :
                  LET file == FilePool[batch.files[i]]
                      result == batch.results[i]
                  IN  /\ result.filename = file.name
                      /\ result.error <=> ~file.readable
                      /\ result.error => result.errorMessage # <<>>
                      /\ ~result.error => result.content = file.content

\* C1 witness: a finished batch in which a failed document is followed by
\* a processed one.
C1_FailureThenSuccess ==
    \E b \in 1..Len(batches) :
        /\ batches[b].done
        /\ \E i \in 1..Len(batches[b].results) :
           \E j \in 1..Len(batches[b].results) :
              /\ i < j
              /\ batches[b].results[i].error
              /\ ~batches[b].results[j].error

\* C2: when downloadAllTerms runs with cards on the page and JSZip loaded,
\* the archive is produced and holds one entry per success card and none for
\* an error card.
C2_ArchiveOfSuccessesOnly ==
    download.status \in {"saved", "error"} =>
        /\ download.status = "saved"
        /\ Len(download.entries) = Cardinality(Successes(download.cards))

\* C3: the body of the archive entry of every success outcome is its
\* displayName (cleanFilename of the document name), one line feed and the
\* terms text of extractTerms, and nothing else.
C3_BodyIsNameAndTerms ==
    download.status = "saved" =>
        \A b \in 1..Len(batches) :
            (batches[b].done /\ download.cards = Cards(batches[b].results)) =>
                \A i \in 1..Len(batches[b].results) :
                    \E k \in 1..Len(download.entries) :
                        download.entries[k].body =
                            cleanFilename(batches[b].results[i].filename)
                            \o <<"\n">> \o batches[b].results[i].terms

C5_NoEmptyTerm ==
    (extraction # NoCall /\ ~IsPlaceholder(extraction)) =>
        /\ extraction.count = Len(SplitLines(extraction.terms))
        /\ \A i \in 1..Len(SplitLines(extraction.terms)) :
              Trim(SplitLines(extraction.terms)[i]) # <<>>

\* C6: for a text that holds the heading, in any letter case, and no
\* item-line in the section after it (the section may be empty),
\* extractTerms returns count 0 with the no-terms placeholder.
C6_NoTermsPlaceholder ==
    (/\ extraction # NoCall
     /\ \E i \in 1..Len(text) : HeadingAt(text, i)
     /\ ItemsFrom(SectionAfterHeading(text), 1) = <<>>) =>
        extraction = [terms |-> NoTermsFound, count |-> 0]

\* C7: for a name that, after removal of a trailing .txt, begins with
\* digits, a dot, optional white space, a dash and optional white space,
\* cleanFilename gives the digits, one dot, one space and the rest without
\* its trailing date; 2.-Guidelines-12-08-2025.txt gives "2. Guidelines".
C7_DashPrefixCollapsed ==
    Len(applied) = 5 =>
        LET n == RemoveExtension(rawName)
            d == SkipDigits(n, 1)
            w == SkipSpaces(n, d + 1)
        IN  /\ (d > 1 /\ LiteralAt(n, d, <<".">>) /\ LiteralAt(n, w, <<"-">>)) =>
                  cleanName = StripDate(SubSeq(n, 1, d) \o <<" ">>
                                        \o From(n, SkipSpaces(n, w + 1)))
            /\ rawName = DashExample =>
                  cleanName = <<"2", ".", " ", "G", "u", "i", "d", "e", "l",
                                "i", "n", "e", "s">>

\* C8: cleanFilename("1_surfer-guidelines-report.txt") is "1. report".
C8_UnderscoreExample ==
    (Len(applied) = 5 /\ rawName = UnderscoreExample) =>
        cleanName = <<"1", ".", " ", "r", "e", "p", "o", "r", "t">>

\* C9 as stated: each of the five rules, applied a second time to its own
\* result, changes nothing.
C9_EveryRuleIdempotent ==
    Len(applied) = 2 => cleanName = once

\* C9 as amended: the underscore rewrite and the dash-after-number collapse,
\* applied a second time to their own result, change nothing.
C9_UnderscoreAndDashIdempotent ==
    applied \in {<<3, 3>>, <<4, 4>>} => cleanName = once

\* C9 witness: the dash rule applied twice to a name it rewrote.
C9_DashAppliedTwice ==
    /\ applied = <<4, 4>>
    /\ once # rawName

\* C10: the overlay is shown while a batch is in flight and hidden when none
\* is, and once no batch is in flight the grid shows the outcomes of the
\* batch started last.
C10_OverlayAndGridFollowLastBatch ==
    LET inFlight == \E b \in 1..Len(batches) : ~batches[b].done
    IN  /\ inFlight => ~loadingHidden
        /\ ~inFlight => loadingHidden
        /\ (~inFlight /\ batches # <<>>) =>
              resultsGrid = Cards(batches[Len(batches)].results)

=============================================================================
